---- MODULE Spec2Model ----
(***************************************************************************)
(* Model of the invoice calculation microservice (microservice-python).    *)
(*                                                                         *)
(* Amounts are exact decimals held as integers in units of 1/10000 of a    *)
(* currency unit, so that 19% and 5% of an amount given in cents are       *)
(* integers again.  The binary rounding of Python floats, infinities and   *)
(* NaN are outside the model.  JSON values are modelled after decoding:    *)
(* every field that is present carries a value of its declared type.       *)
(***************************************************************************)
EXTENDS Integers, Sequences, FiniteSets, TLC

\* ---------------------------------------------------------------- bounds
MaxItems == 2          \* longest list of line items
NumReq == 2            \* concurrent HTTP requests

\* ------------------------------------------------------- program constants
VAT == 19                  \* rules.py: VAT = 0.19, as a percentage
DISCOUNT_RATE == 5         \* rules.py: subtotal * 0.05, as a percentage
DISCOUNT_THRESHOLD == 1000 \* rules.py: subtotal > 1000, in currency units
HTTP_OK == 200
HTTP_UNAUTHORIZED == 401
HTTP_UNPROCESSABLE == 422

Unit == 100 * 100                                  \* one currency unit
Money(units, cents) == units * Unit + cents * 100  \* the amount units.cents
Percent(x, p) == (x * p) \div 100                  \* x * 0.pp

\* ------------------------------------------------------------ domain/model
ItemKeys == {"product", "unit_price", "quantity"}

Item(product, unit_price, quantity) ==
    [product |-> product, unit_price |-> unit_price, quantity |-> quantity]

InvoiceCalculationResult(subtotal, taxes, discounts, total) ==
    [subtotal |-> subtotal, taxes |-> taxes, discounts |-> discounts, total |-> total]

\* ------------------------------------------------------------ domain/rules
\* The builtin sum: a left fold from start.
RECURSIVE sum(_, _)
sum(seq, start) ==
    IF seq = <<>> THEN start ELSE sum(Tail(seq), start + Head(seq))

\* Mutant: the quantity is left out of the line total.
calculate_subtotal_prices_only(items) ==
    sum([i \in 1..Len(items) |-> items[i].unit_price], 0)

calculate_subtotal(items) ==
    sum([i \in 1..Len(items) |-> items[i].unit_price * items[i].quantity], 0)

\* Mutant: the discount threshold is inclusive.
calculate_discounts_inclusive(subtotal) ==
    IF subtotal >= DISCOUNT_THRESHOLD * Unit THEN Percent(subtotal, DISCOUNT_RATE) ELSE 0

\* Mutant: the discount is returned as a negative adjustment.
calculate_discounts_negative(subtotal) ==
    IF subtotal > DISCOUNT_THRESHOLD * Unit THEN 0 - Percent(subtotal, DISCOUNT_RATE) ELSE 0

calculate_discounts(subtotal) ==
    IF subtotal > DISCOUNT_THRESHOLD * Unit THEN Percent(subtotal, DISCOUNT_RATE) ELSE 0

\* Mutant: the tax is taken on the discounted amount.
calculate_taxes_after_discount(subtotal) ==
    Percent(subtotal - calculate_discounts(subtotal), VAT)

calculate_taxes(subtotal) == Percent(subtotal, VAT)

\* ------------------------------------------------------ application/mappers
\* Mutant: the discount is not subtracted.
map_to_result_no_discount(subtotal, taxes, discounts) ==
    LET total == subtotal + taxes
    IN InvoiceCalculationResult(subtotal, taxes, discounts, total)

map_to_result(subtotal, taxes, discounts) ==
    LET total == subtotal + taxes - discounts
    IN InvoiceCalculationResult(subtotal, taxes, discounts, total)

\* ----------------------------------------------------- application/services
calculate(items) ==
    LET subtotal == calculate_subtotal(items)
        taxes == calculate_taxes(subtotal)
        discounts == calculate_discounts(subtotal)
    IN map_to_result(subtotal, taxes, discounts)

\* ----------------------------------------------------------- state
VARIABLES
    env,           \* os.environ["TOKEN_SECRET"]: <<>> when unset, <<s>> when set to s
    pc,            \* per request: idle, auth, validate, handler, done
    x_api_token,   \* per request: the X-API-Token header, <<>> when absent
    body,          \* per request: the decoded JSON body
    token_secret,  \* per request: the secret verify_token read
    items,         \* per request: the validated List[Item] handed to the endpoint
    response,      \* per request: the HTTP response
    svcPc,         \* a direct call of InvoiceCalculatorService.calculate: call, done
    svcItems,      \* its argument
    svcResult      \* its return value

vars == <<env, pc, x_api_token, body, token_secret, items, response,
          svcPc, svcItems, svcResult>>
httpVars == <<env, pc, x_api_token, body, token_secret, items, response>>
svcVars == <<svcPc, svcItems, svcResult>>

Requests == 1..NumReq
None == <<>>
NoResponse == [status |-> 0]
NoResult == [returned |-> FALSE]

\* Sequences over S of length at most n.
SeqUpTo(S, n) == UNION {[1..k -> S] : k \in 0..n}

\* ----------------------------------------------------------- inputs
Prices == {Money(0, 0), Money(50, 0), Money(100, 0), Money(500, 0),
           Money(1000, 0), Money(1000, 1), 0 - Money(50, 0)}
Quantities == {0, 1, 2, 3}
SvcItems == {Item("A", p, q) : p \in Prices, q \in Quantities}

Secrets == {"s1", "s2"}
EnvValues == {None} \cup {<<s>> : s \in Secrets}
Tokens == {None, <<"">>} \cup {<<s>> : s \in Secrets}

\* A JSON object holding the fields K of a line item, and JSON bodies.
JsonObject(item, K) == [k \in K |-> item[k]]
NotArray == [kind |-> "object"]
JsonArray(elems) == [kind |-> "array", elems |-> elems]

ApiItems == {Item("A", Money(600, 0), 2), Item("", Money(600, 0), 2),
             Item("A", 0 - Money(50, 0), 2), Item("A", Money(600, 0), 0 - 1)}
ApiJsonItems == ApiItems \cup
    {JsonObject(Item("A", Money(600, 0), 2), K) : K \in SUBSET ItemKeys}
ApiBodies == {NotArray} \cup {JsonArray(e) : e \in SeqUpTo(ApiJsonItems, MaxItems)}

ConcTokens == {None} \cup {<<s>> : s \in Secrets}
ConcBodies == {NotArray, JsonArray(<<>>), JsonArray(<<Item("A", Money(600, 0), 2)>>)}

\* ------------------------------------------------------ infrastructure/auth
\* Mutant: the variable is looked up under a wrong name, so the default is used.
get_token_secret_default == ""

get_token_secret == IF env = None THEN "" ELSE env[1]

HTTPException(status_code, detail) ==
    [raised |-> TRUE, status_code |-> status_code, detail |-> detail]
Returned == [raised |-> FALSE, status_code |-> 0, detail |-> ""]

\* Mutant: the comparison is made before the presence check.
verify_token_compare_first(token) ==
    LET secret == get_token_secret
    IN IF token # <<secret>> THEN HTTPException(HTTP_UNAUTHORIZED, "Invalid token")
       ELSE IF token = None THEN HTTPException(HTTP_UNAUTHORIZED, "Token missing")
       ELSE Returned

\* Mutant: the comparison is skipped while no secret is configured.
verify_token_skip_unset(token) ==
    LET secret == get_token_secret
    IN IF token = None THEN HTTPException(HTTP_UNAUTHORIZED, "Token missing")
       ELSE IF secret # "" /\ token[1] # secret
            THEN HTTPException(HTTP_UNAUTHORIZED, "Invalid token")
       ELSE Returned

verify_token(token) ==
    LET secret == get_token_secret
    IN IF token = None THEN HTTPException(HTTP_UNAUTHORIZED, "Token missing")
       ELSE IF token[1] # secret THEN HTTPException(HTTP_UNAUTHORIZED, "Invalid token")
       ELSE Returned

\* ------------------------------------------------------ presentation/routes
\* A request to POST /calculate goes through the route's declaration in
\* order: the dependency verify_token is resolved first and its HTTPException
\* ends the request; the body parameter is validated next; the endpoint
\* function runs last.
\* The body parameter items: List[Item]: every element must carry the three
\* required fields of Item.
ValidBody(b) ==
    /\ b.kind = "array"
    /\ \A i \in 1..Len(b.elems) : ItemKeys \subseteq DOMAIN b.elems[i]

ParseItems(b) ==
    [i \in 1..Len(b.elems) |->
        Item(b.elems[i].product, b.elems[i].unit_price, b.elems[i].quantity)]

ErrorResponse(status, detail) == [status |-> status, detail |-> detail]
ResultResponse(result) == [status |-> HTTP_OK, result |-> result]

\* A client sends POST /calculate.
Receive(r, T, B) ==
    /\ pc[r] = "idle"
    /\ \E t \in T, b \in B :
          /\ x_api_token' = [x_api_token EXCEPT ![r] = t]
          /\ body' = [body EXCEPT ![r] = b]
    /\ pc' = [pc EXCEPT ![r] = "auth"]
    /\ UNCHANGED <<env, token_secret, items, response, svcVars>>

\* The dependency Depends(verify_token) runs.
VerifyToken(r) ==
    /\ pc[r] = "auth"
    /\ token_secret' = [token_secret EXCEPT ![r] = get_token_secret]
    /\ LET out == verify_token(x_api_token[r])
       IN IF out.raised
          THEN /\ response' = [response EXCEPT
                                 ![r] = ErrorResponse(out.status_code, out.detail)]
               /\ pc' = [pc EXCEPT ![r] = "done"]
          ELSE /\ pc' = [pc EXCEPT ![r] = "validate"]
               /\ UNCHANGED response
    /\ UNCHANGED <<env, x_api_token, body, items, svcVars>>

\* Mutant: elements that fail validation are dropped instead of rejected.
ValidateBodyLenient(r) ==
    /\ pc[r] = "validate"
    /\ IF body[r].kind = "array"
       THEN /\ items' = [items EXCEPT ![r] = ParseItems(
                    JsonArray(SelectSeq(body[r].elems,
                                        LAMBDA e : ItemKeys \subseteq DOMAIN e)))]
            /\ pc' = [pc EXCEPT ![r] = "handler"]
            /\ UNCHANGED response
       ELSE /\ response' = [response EXCEPT
                              ![r] = ErrorResponse(HTTP_UNPROCESSABLE, "validation error")]
            /\ pc' = [pc EXCEPT ![r] = "done"]
            /\ UNCHANGED items
    /\ UNCHANGED <<env, x_api_token, body, token_secret, svcVars>>

\* The body is validated against List[Item].
ValidateBody(r) ==
    /\ pc[r] = "validate"
    /\ IF ValidBody(body[r])
       THEN /\ items' = [items EXCEPT ![r] = ParseItems(body[r])]
            /\ pc' = [pc EXCEPT ![r] = "handler"]
            /\ UNCHANGED response
       ELSE /\ response' = [response EXCEPT
                              ![r] = ErrorResponse(HTTP_UNPROCESSABLE, "validation error")]
            /\ pc' = [pc EXCEPT ![r] = "done"]
            /\ UNCHANGED items
    /\ UNCHANGED <<env, x_api_token, body, token_secret, svcVars>>

\* Mutant: the service keeps the items in a shared attribute, and reads back
\* those of whichever request is in the endpoint.
calculate_invoice_shared(r) ==
    /\ pc[r] = "handler"
    /\ LET q == CHOOSE q \in Requests : pc[q] = "handler"
       IN response' = [response EXCEPT ![r] = ResultResponse(calculate(items[q]))]
    /\ pc' = [pc EXCEPT ![r] = "done"]
    /\ UNCHANGED <<env, x_api_token, body, token_secret, items, svcVars>>

\* The endpoint function runs and its result is returned.
calculate_invoice(r) ==
    /\ pc[r] = "handler"
    /\ response' = [response EXCEPT ![r] = ResultResponse(calculate(items[r]))]
    /\ pc' = [pc EXCEPT ![r] = "done"]
    /\ UNCHANGED <<env, x_api_token, body, token_secret, items, svcVars>>

\* The operator reconfigures TOKEN_SECRET while the service runs.
SetTokenSecret ==
    /\ \E v \in EnvValues : v # env /\ env' = v
    /\ UNCHANGED <<pc, x_api_token, body, token_secret, items, response, svcVars>>

\* A direct call of the service, as the unit tests make it.
ServiceCalculate ==
    /\ svcPc = "call"
    /\ svcResult' = calculate(svcItems)
    /\ svcPc' = "done"
    /\ UNCHANGED <<svcItems, httpVars>>

\* ------------------------------------------------------- specifications
HttpIdle ==
    /\ pc = [r \in Requests |-> "idle"]
    /\ x_api_token = [r \in Requests |-> None]
    /\ body = [r \in Requests |-> NotArray]
    /\ token_secret = [r \in Requests |-> ""]
    /\ items = [r \in Requests |-> <<>>]
    /\ response = [r \in Requests |-> NoResponse]

SvcIdle == svcPc = "idle" /\ svcItems = <<>> /\ svcResult = NoResult

\* Concurrent requests while TOKEN_SECRET may change.
Init == env \in EnvValues /\ HttpIdle /\ SvcIdle
Step(r) == VerifyToken(r) \/ ValidateBody(r) \/ calculate_invoice(r)
Next ==
    \/ SetTokenSecret
    \/ \E r \in Requests : Receive(r, ConcTokens, ConcBodies) \/ Step(r)
Spec == Init /\ [][Next]_vars

\* One request, over every token and body, under a fixed TOKEN_SECRET.  Once
\* received, a request is served to its end: nothing in the pipeline blocks.
InitApi == env \in EnvValues /\ HttpIdle /\ SvcIdle
NextApi == Receive(1, Tokens, ApiBodies) \/ Step(1)
SpecApi == InitApi /\ [][NextApi]_vars /\ WF_vars(Step(1))

\* One direct call of InvoiceCalculatorService.calculate over every item list.
InitSvc ==
    /\ env = None /\ HttpIdle
    /\ svcPc = "call" /\ svcItems \in SeqUpTo(SvcItems, MaxItems) /\ svcResult = NoResult
NextSvc == ServiceCalculate
SpecSvc == InitSvc /\ [][NextSvc]_vars

\* ------------------------------------------------- properties: the service
SvcReturned == svcPc = "done"
NonNegative(its) ==
    \A i \in 1..Len(its) : its[i].unit_price >= 0 /\ its[i].quantity >= 0

\* The sum of the line totals, written over the index set.
RECURSIVE SumOfLines(_, _)
SumOfLines(its, S) ==
    IF S = {} THEN 0
    ELSE LET i == CHOOSE i \in S : TRUE
         IN its[i].unit_price * its[i].quantity + SumOfLines(its, S \ {i})

\* C1: for every list of line items with non-negative unit_price and quantity,
\* the empty list included, the result of InvoiceCalculatorService.calculate
\* satisfies total = subtotal + taxes - discounts on the values it carries.
C1_TotalIdentity ==
    (SvcReturned /\ NonNegative(svcItems)) =>
        svcResult.total = svcResult.subtotal + svcResult.taxes - svcResult.discounts

\* C1 witness: a two-item non-negative list whose result carries a discount.
C1_Witness ==
    /\ SvcReturned /\ NonNegative(svcItems) /\ Len(svcItems) = 2
    /\ svcResult.discounts > 0
    /\ svcResult.total < svcResult.subtotal + svcResult.taxes

\* C2: calculate_discounts returns 0 when subtotal <= 1000 and 5% of the
\* subtotal when subtotal > 1000; the threshold is exclusive: exactly 1000
\* yields 0 and anything strictly above (1000.01) yields a discount above 0.
C2_DiscountRule ==
    SvcReturned =>
        LET s == svcResult.subtotal
            d == svcResult.discounts
        IN /\ s <= 1000 * Unit => d = 0
           /\ s > 1000 * Unit => (100 * d = 5 * s /\ d > 0)
           /\ s = Money(1000, 1) => d > 0

\* C2 witness: a subtotal of exactly 1000, reached from a positive price, and
\* no discount.
C2_Witness ==
    /\ SvcReturned /\ svcResult.subtotal = Money(1000, 0)
    /\ Len(svcItems) = 2 /\ svcItems[1].quantity = 2
    /\ svcResult.discounts = 0

\* C4: calculate_taxes returns 19% of the subtotal whether or not a discount
\* applies: a subtotal of 250 gives 47.5 and a subtotal of 1500 gives 285.
C4_TaxRule ==
    SvcReturned =>
        LET s == svcResult.subtotal
            t == svcResult.taxes
        IN /\ 100 * t = 19 * s
           /\ s = Money(250, 0) => t = Money(47, 50)
           /\ s = Money(1500, 0) => t = Money(285, 0)

\* C4 witness: the subtotal 1500, which carries a discount, taxed at 285.
C4_Witness ==
    /\ SvcReturned /\ svcResult.subtotal = Money(1500, 0)
    /\ svcResult.discounts = Money(75, 0) /\ svcResult.taxes = Money(285, 0)

\* C5: calculate_subtotal returns the sum over the items of unit_price *
\* quantity; the empty list and any list whose quantities are all 0 give a
\* subtotal of 0, and then taxes, discounts and total are 0 too.
C5_SubtotalIsSum ==
    SvcReturned =>
        /\ svcResult.subtotal = SumOfLines(svcItems, DOMAIN svcItems)
        /\ (\A i \in 1..Len(svcItems) : svcItems[i].quantity = 0) =>
              /\ svcResult.subtotal = 0 /\ svcResult.taxes = 0
              /\ svcResult.discounts = 0 /\ svcResult.total = 0

\* C5 witness: two priced items of quantity 0, and a result of zeros.
C5_Witness ==
    /\ SvcReturned /\ Len(svcItems) = 2
    /\ \A i \in 1..2 : svcItems[i].quantity = 0 /\ svcItems[i].unit_price > 0
    /\ svcResult.subtotal = 0 /\ svcResult.total = 0

\* ------------------------------------------------ properties: the endpoint
\* The secret a request is checked against, from the environment.
SecretOf(e) == IF e = <<>> THEN "" ELSE e[1]
TokenAbsent(r) == x_api_token[r] = <<>>
TokenMatches(r, secret) == x_api_token[r] = <<secret>>
Verified(r) == pc[r] \in {"validate", "handler", "done"}
Done(r) == pc[r] = "done"
Answered(r, status) == Done(r) /\ response[r].status = status
Rejected(r, reason) ==
    Answered(r, 401) /\ response[r] = [status |-> 401, detail |-> reason]
HasResult(r) == "result" \in DOMAIN response[r]

\* The body is a JSON array whose objects all carry product, unit_price and
\* quantity.
WellFormed(b) ==
    /\ b.kind = "array"
    /\ \A i \in 1..Len(b.elems) :
          /\ "product" \in DOMAIN b.elems[i]
          /\ "unit_price" \in DOMAIN b.elems[i]
          /\ "quantity" \in DOMAIN b.elems[i]

\* What verify_token decides, for C3: absent -> 401 "Token missing" (also when
\* the secret is empty), present and different -> 401 "Invalid token",
\* present and equal -> accepted.
C3_Decision(r) ==
    /\ TokenAbsent(r) => Rejected(r, "Token missing")
    /\ (~TokenAbsent(r) /\ ~TokenMatches(r, SecretOf(env))) =>
          Rejected(r, "Invalid token")
    /\ TokenMatches(r, SecretOf(env)) => ~Answered(r, 401)

\* C3 (as stated): verify_token rejects an absent token with 401 "Token
\* missing", a present token different from the secret with 401 "Invalid
\* token", and accepts a token equal to the secret, the request being
\* answered 200.
C3_AsStated ==
    Verified(1) =>
        /\ C3_Decision(1)
        /\ (Done(1) /\ TokenMatches(1, SecretOf(env))) => Answered(1, 200)

\* C3 (amended): as above, but a request whose token is accepted is answered
\* 200 when its body is a well-formed list of items, and 422 otherwise.
C3_VerifyToken ==
    Verified(1) =>
        /\ C3_Decision(1)
        /\ (Done(1) /\ TokenMatches(1, SecretOf(env))) =>
              IF WellFormed(body[1]) THEN Answered(1, 200) ELSE Answered(1, 422)

\* C3 witness: TOKEN_SECRET is unset, the header is present and empty, and the
\* request is answered 200.
C3_Witness ==
    /\ env = <<>> /\ x_api_token[1] = <<"">> /\ Answered(1, 200)
    /\ body[1].kind = "array" /\ Len(body[1].elems) = 2

\* C6: with the correct token, a body that is no JSON array, or an array with
\* an object lacking product, unit_price or quantity, is answered 422 and never
\* with a calculation result; a well-formed array, the empty one included, is
\* answered 200.
C6_Validation ==
    TokenMatches(1, SecretOf(env)) =>
        /\ pc[1] = "handler" => WellFormed(body[1])
        /\ Done(1) =>
              IF WellFormed(body[1])
              THEN Answered(1, 200) /\ HasResult(1)
              ELSE Answered(1, 422) /\ ~HasResult(1)

\* C6 witness: the correct token, an array whose second object lacks quantity
\* only, answered 422.
C6_Witness ==
    /\ TokenMatches(1, SecretOf(env)) /\ Answered(1, 422)
    /\ body[1].kind = "array" /\ Len(body[1].elems) = 2
    /\ DOMAIN body[1].elems[1] = ItemKeys
    /\ DOMAIN body[1].elems[2] = {"product", "unit_price"}

\* The items the endpoint was called with, once it is called.
Accepted(r) == pc[r] = "handler" \/ Answered(r, 200)

\* C8 (as stated): every accepted line item has a non-empty product, a
\* non-negative unit_price and a non-negative quantity, so that subtotal, taxes
\* and discounts of every 200 response are non-negative.
C8_AsStated ==
    Accepted(1) =>
        /\ \A i \in 1..Len(items[1]) :
              /\ items[1][i].product # ""
              /\ items[1][i].unit_price >= 0
              /\ items[1][i].quantity >= 0
        /\ Answered(1, 200) =>
              /\ response[1].result.subtotal >= 0
              /\ response[1].result.taxes >= 0
              /\ response[1].result.discounts >= 0

\* C8 (amended): every accepted line item carries product, unit_price and
\* quantity as sent, whatever their sign and even with an empty product; a 200
\* response to items whose unit_price and quantity are all non-negative has
\* non-negative subtotal, taxes and discounts.
C8_AcceptedItems ==
    Accepted(1) =>
        /\ Len(items[1]) = Len(body[1].elems)
        /\ \A i \in 1..Len(items[1]) :
              /\ DOMAIN body[1].elems[i] = ItemKeys
              /\ items[1][i] = body[1].elems[i]
        /\ (Answered(1, 200) /\ NonNegative(items[1])) =>
              /\ response[1].result.subtotal >= 0
              /\ response[1].result.taxes >= 0
              /\ response[1].result.discounts >= 0

\* C8 witness: a 200 response to two non-negative items, one with an empty
\* product, that carries a discount.
C8_Witness ==
    /\ Answered(1, 200) /\ Len(items[1]) = 2 /\ NonNegative(items[1])
    /\ items[1][2].product = ""
    /\ response[1].result.discounts > 0

\* C10: the service is invoked only after verify_token accepted the token: a
\* request whose token is absent or differs from the secret is never answered
\* 200 and never receives a result, whatever its body; every request ends in
\* exactly one terminal response, 200, 401 or 422, which is never replaced.
C10_AuthBeforeCalculate ==
    /\ [](/\ (pc[1] \in {"validate", "handler"} \/ (Done(1) /\ HasResult(1))
                 \/ Answered(1, 200))
              => TokenMatches(1, SecretOf(env))
          /\ Done(1) => response[1].status \in {200, 401, 422}
          /\ ~Done(1) => response[1] = NoResponse)
    /\ [][Done(1) => (pc'[1] = "done" /\ response'[1] = response[1])]_vars
    /\ (pc[1] = "auth") ~> Done(1)

\* C10 witness: a well-formed body under a wrong token, answered 401.
C10_Witness ==
    /\ Rejected(1, "Invalid token") /\ WellFormed(body[1])
    /\ Len(body[1].elems) = 1 /\ items[1] = <<>>

\* --------------------------------------- properties: concurrent requests
\* C7: the secret is read when a request is authenticated and never cached:
\* whatever changes TOKEN_SECRET went through, verify_token accepts a request
\* exactly when its token equals the value TOKEN_SECRET holds at that step, so
\* a token accepted before a change is rejected after it, and the new secret
\* is accepted from the next request on.
C7_SecretReadPerRequest ==
    [][\A r \in Requests :
          (pc[r] = "auth" /\ pc'[r] # "auth") =>
              /\ token_secret'[r] = SecretOf(env)
              /\ pc'[r] = "validate" <=> TokenMatches(r, SecretOf(env))
              /\ pc'[r] = "done" <=> ~TokenMatches(r, SecretOf(env))]_vars

\* C7 witness: two requests carried the same token; the first was accepted
\* under the old secret, the second rejected under the new one, which is the
\* secret still configured.
C7_Witness ==
    /\ x_api_token[1] = x_api_token[2] /\ x_api_token[1] # <<>>
    /\ Answered(1, 200) /\ Rejected(2, "Invalid token")
    /\ token_secret[1] # token_secret[2]
    /\ env = <<token_secret[2]>>

\* The response a request gets when it is the only one: a function of its
\* token, its body and the secret it was checked against.
HandledAlone(token, b, secret) ==
    IF token = <<>> THEN [status |-> 401, detail |-> "Token missing"]
    ELSE IF token # <<secret>> THEN [status |-> 401, detail |-> "Invalid token"]
    ELSE IF ~WellFormed(b) THEN [status |-> 422, detail |-> "validation error"]
    ELSE [status |-> 200, result |-> calculate(b.elems)]

RequestState(r) ==
    <<pc[r], x_api_token[r], body[r], token_secret[r], items[r], response[r]>>

\* C9: requests are handled independently and statelessly: under every
\* interleaving a request's response is the one it would get alone, from its
\* own token, its own body and the configured secret; no step of a request
\* changes the environment or anything another request holds.
C9_Independent ==
    /\ [](\A r \in Requests :
            Done(r) =>
                response[r] = HandledAlone(x_api_token[r], body[r], token_secret[r]))
    /\ [][\A r \in Requests :
            pc'[r] # pc[r] =>
                /\ env' = env
                /\ \A q \in Requests \ {r} : RequestState(q)' = RequestState(q)]_vars

\* C9 witness: request 2 went through the endpoint while request 1, holding
\* other items, was in it.
C9_Witness ==
    /\ pc[1] = "handler" /\ Answered(2, 200)
    /\ items[1] # items[2] /\ Len(items[2]) = 1
    /\ response[2].result.subtotal = Money(1200, 0)

====
